---- MODULE Spec2Model ----
(***************************************************************************)
(* PythonInterpreterTool (verl/tools/python_interpreter.py): the session   *)
(* registry, the execute handler, the rewriter and the snippet runner with *)
(* its temporary file and child process; and the GSM8K scoring utility     *)
(* (verl/utils/reward_score/gsm8k_original.py).                            *)
(*                                                                         *)
(* Text is a sequence of one-character strings.  The tool is specified in  *)
(* three deployments over the same actions: Spec, one event loop (the      *)
(* handlers are async functions without an await, so each runs to          *)
(* completion before the next starts), SpecThreads, execute calls in       *)
(* concurrent workers, whose steps interleave at their system calls, and   *)
(* SpecSessions, create and release calls between the steps of an execute  *)
(* call.  SpecEnvelope, SpecRewrite and SpecScore apply one function each  *)
(* to inputs drawn from bounded sets.                                      *)
(***************************************************************************)
EXTENDS Integers, Sequences, FiniteSets, TLC

VARIABLES
    _state,   \* self._state: session id -> state record
    issued,   \* how many uuid4() identifiers have been drawn
    fs,       \* the temporary directory: file name -> content
    procs,    \* the running processes started by runs
    calls,    \* each execute call: its position and local variables
    lastOp,   \* the caller's view of the last completed create/release
    arg,      \* the input of a function taken on its own
    res       \* and its result

vars == <<_state, issued, fs, procs, calls, lastOp, arg, res>>

----------------------------------------------------------------------------
(* Bounds of the model. *)

NCalls == 2
NNames == 2
MaxUuid == 1
LongLen == 2944

Calls == 1..NCalls
Names == 1..NNames

----------------------------------------------------------------------------
(* Text helpers. *)

Min(S) == CHOOSE m \in S : \A n \in S : m <= n
Max(S) == CHOOSE m \in S : \A n \in S : m >= n

Rep(ch, n) == [i \in 1..n |-> ch]

\* str.strip() with no argument removes leading and trailing whitespace.
Whitespace == {" ", "\n", "\t", "\r"}

strip(s) ==
    LET n      == Len(s)
        ink(i) == s[i] \notin Whitespace
    IN  IF \A i \in 1..n : ~ink(i) THEN <<>>
        ELSE LET a == CHOOSE i \in 1..n : ink(i) /\ \A j \in 1..(i - 1) : ~ink(j)
                 b == CHOOSE i \in 1..n : ink(i) /\ \A j \in (i + 1)..n : ~ink(j)
             IN  SubSeq(s, a, b)

\* s[:n]
Take(s, n) == SubSeq(s, 1, IF Len(s) < n THEN Len(s) ELSE n)

\* json.dumps escapes (ensure_ascii is the default): one character's text.
EscChar(ch) ==
    CASE ch = "\"" -> <<"\\", "\"">>
      [] ch = "\\" -> <<"\\", "\\">>
      [] ch = "\n" -> <<"\\", "n">>
      [] ch = "\t" -> <<"\\", "t">>
      [] ch = "\r" -> <<"\\", "r">>
      [] ch = "é"  -> <<"\\", "u", "0", "0", "e", "9">>
      [] OTHER     -> <<ch>>

RECURSIVE Esc(_)
Esc(s) ==
    IF Len(s) = 0 THEN <<>>
    ELSE IF Len(s) = 1 THEN EscChar(s[1])
    ELSE LET h == Len(s) \div 2
         IN  Esc(SubSeq(s, 1, h)) \o Esc(SubSeq(s, h + 1, Len(s)))

\* json.dumps({"stdout": stdout, "stderr": stderr})
dumps(stdout, stderr) ==
    <<"{", "\"", "s", "t", "d", "o", "u", "t", "\"", ":", " ", "\"">>
    \o Esc(stdout)
    \o <<"\"", ",", " ", "\"", "s", "t", "d", "e", "r", "r", "\"", ":", " ", "\"">>
    \o Esc(stderr)
    \o <<"\"", "}">>

OpenTag  == <<"<", "t", "o", "o", "l", "_", "o", "u", "t", "p", "u", "t", ">">>
CloseTag == <<"<", "/", "t", "o", "o", "l", "_", "o", "u", "t", "p", "u", "t", ">">>

MaxEnvelope == 3000

\* f"<tool_output>{payload}</tool_output>"[:3000]
EnvelopeCapPayload(stdout, stderr) ==
    OpenTag \o Take(dumps(stdout, stderr), MaxEnvelope) \o CloseTag
EnvelopeCapStreams(stdout, stderr) ==
    OpenTag \o dumps(Take(stdout, MaxEnvelope), Take(stderr, MaxEnvelope))
        \o CloseTag
Envelope(stdout, stderr) ==
    Take(OpenTag \o dumps(stdout, stderr) \o CloseTag, MaxEnvelope)

\* reward = -0.1 if stderr else 0.0
Reward(stderr) == IF stderr # <<>> THEN "-0.1" ELSE "0.0"

TimedOutText ==
    <<"E", "x", "e", "c", "u", "t", "i", "o", "n", " ",
      "t", "i", "m", "e", "d", " ", "o", "u", "t">>

----------------------------------------------------------------------------
(* textwrap.dedent and the Heuristic Rewriter.  Snippets are written over   *)
(* the characters x 1 + ( ) = ; space and newline, the token print(, the    *)
(* block header "if x:" and one character that UTF-8 cannot encode.         *)

Indent == {" ", "\t"}

\* The elements of s at the indices in keep, in order.
Pick(s, keep) ==
    [k \in 1..Cardinality(keep) |->
        s[CHOOSE i \in keep : Cardinality({j \in keep : j <= i}) = k]]

LineStart(s, i) ==
    LET nl == {j \in 1..(i - 1) : s[j] = "\n"}
    IN  IF nl = {} THEN 1 ELSE Max(nl) + 1

LineEnd(s, i) ==
    LET nl == {j \in i..Len(s) : s[j] = "\n"}
    IN  IF nl = {} THEN Len(s) ELSE Min(nl) - 1

\* The line of index i holds spaces and tabs only.
BlankLine(s, i) == \A k \in LineStart(s, i)..LineEnd(s, i) : s[k] \in Indent

IndentLen(s, st) ==
    LET stop == {k \in st..Len(s) : s[k] \notin Indent}
    IN  IF stop = {} THEN Len(s) + 1 - st ELSE Min(stop) - st

\* textwrap.dedent(text): whitespace-only lines are emptied, and the longest
\* common leading whitespace of the other lines is removed from each.
dedent(text) ==
    LET n      == Len(text)
        starts == {LineStart(text, i) : i \in {j \in 1..n :
                      text[j] # "\n" /\ ~BlankLine(text, j)}}
        least  == Min({IndentLen(text, st) : st \in starts})
        first  == Min(starts)
        margin == IF starts = {} THEN 0
                  ELSE Max({k \in 0..least : \A st \in starts :
                          SubSeq(text, st, st + k - 1)
                              = SubSeq(text, first, first + k - 1)})
        keep   == {i \in 1..n :
                      \/ text[i] = "\n"
                      \/ /\ ~BlankLine(text, i)
                         /\ i - LineStart(text, i) >= margin}
    IN  Pick(text, keep)

\* str.rstrip()
rstrip(s) ==
    LET n      == Len(s)
        ink(i) == s[i] \notin Whitespace
    IN  IF \A i \in 1..n : ~ink(i) THEN <<>>
        ELSE SubSeq(s, 1, CHOOSE i \in 1..n :
                              ink(i) /\ \A j \in (i + 1)..n : ~ink(j))

\* needle in s
StartsWith(s, needle) ==
    Len(s) >= Len(needle) /\ SubSeq(s, 1, Len(needle)) = needle
Contains(s, needle) ==
    \E i \in 1..(Len(s) - Len(needle) + 1) :
        SubSeq(s, i, i + Len(needle) - 1) = needle

PrintTok == <<"p", "r", "i", "n", "t", "(">>

\* The tokens of a line: N a name, D a number, the operators themselves
\* (== is read before =, the keyword in is an operator) and ? what the
\* tokenizer or every production rejects: the keyword if, a number running
\* into a name, a character that starts no token here.  A number directly
\* followed by the keyword if or in ends before it.
Letters == {"x", "p", "r", "i", "n", "t", "f"}
Digits == {"1"}
Word == Letters \cup Digits

EqBefore(s, i) ==
    LET stop == {k \in 1..(i - 1) : s[k] # "="}
    IN  IF stop = {} THEN i - 1 ELSE i - 1 - Max(stop)

RunStart(s, i) ==
    LET stop == {k \in 1..(i - 1) : s[k] \notin Word}
    IN  IF stop = {} THEN 1 ELSE Max(stop) + 1

RunEnd(s, i) ==
    LET stop == {k \in i..Len(s) : s[k] \notin Word}
    IN  IF stop = {} THEN Len(s) ELSE Min(stop) - 1

KeywordAt(s, i) == s[i] = "i" /\ i < Len(s) /\ s[i + 1] \in {"f", "n"}

TokenStarts(s) ==
    {i \in 1..Len(s) :
        /\ s[i] # " "
        /\ s[i] \in Word =>
              \/ RunStart(s, i) = i
              \/ /\ KeywordAt(s, i)
                 /\ \A k \in RunStart(s, i)..(i - 1) : s[k] \in Digits
        /\ s[i] = "=" => EqBefore(s, i) % 2 = 0}

TokenAt(s, i) ==
    IF s[i] \in {"+", "(", ")"} THEN s[i]
    ELSE IF s[i] = "=" THEN (IF i < Len(s) /\ s[i + 1] = "=" THEN "==" ELSE "=")
    ELSE IF s[i] \in Digits
    THEN LET e    == RunEnd(s, i)
             rest == {k \in i..e : s[k] \notin Digits}
         IN  IF rest = {} \/ KeywordAt(s, Min(rest)) THEN "D" ELSE "?"
    ELSE IF s[i] \in Letters
    THEN LET w == SubSeq(s, i, RunEnd(s, i))
         IN  IF w = <<"i", "f">> THEN "?"
             ELSE IF w = <<"i", "n">> THEN "in"
             ELSE "N"
    ELSE "?"

Tokens(s) ==
    LET st == TokenStarts(s)
    IN  [k \in 1..Cardinality(st) |->
            TokenAt(s, CHOOSE i \in st : Cardinality({j \in st : j <= i}) = k)]

\* Python's expression grammar over these tokens:
\*   C -> E | C == E | C in E    E -> T | E + T    T -> + T | P
\*   P -> A | P ( ) | P ( Arg )           Arg -> C | name = C
\*   A -> name | number | ( ) | ( C )
RECURSIVE IsC(_, _, _), IsE(_, _, _), IsT(_, _, _), IsP(_, _, _),
          IsArg(_, _, _), IsA(_, _, _)
IsA(t, i, j) ==
    \/ i = j /\ t[i] \in {"N", "D"}
    \/ /\ j > i /\ t[i] = "(" /\ t[j] = ")"
       /\ (j = i + 1 \/ IsC(t, i + 1, j - 1))
IsArg(t, i, j) ==
    \/ IsC(t, i, j)
    \/ i + 2 <= j /\ t[i] = "N" /\ t[i + 1] = "=" /\ IsC(t, i + 2, j)
IsP(t, i, j) ==
    \/ IsA(t, i, j)
    \/ \E k \in (i + 1)..(j - 1) :
          /\ t[k] = "(" /\ t[j] = ")"
          /\ IsP(t, i, k - 1)
          /\ (k + 1 = j \/ IsArg(t, k + 1, j - 1))
IsT(t, i, j) ==
    \/ t[i] = "+" /\ i < j /\ IsT(t, i + 1, j)
    \/ IsP(t, i, j)
IsE(t, i, j) ==
    \/ IsT(t, i, j)
    \/ \E k \in (i + 1)..(j - 1) :
          t[k] = "+" /\ IsE(t, i, k - 1) /\ IsT(t, k + 1, j)
IsC(t, i, j) ==
    \/ IsE(t, i, j)
    \/ \E k \in (i + 1)..(j - 1) :
          t[k] \in {"==", "in"} /\ IsC(t, i, k - 1) /\ IsE(t, k + 1, j)

\* The line is an expression: the parser accepts it in eval mode.
IsExpr(line) ==
    LET t == Tokens(line)
    IN  /\ Len(t) > 0
        /\ \A k \in 1..Len(t) : t[k] # "?"
        /\ IsC(t, 1, Len(t))

\* One character that UTF-8 cannot encode, a lone surrogate such as U+D800.
Surrogate == "\\ud800"

\* compile(source, "<expr>", "eval"): the source is encoded as UTF-8, then
\* parsed; the name of the exception raised, or "ok".
compile(source) ==
    IF \E i \in 1..Len(source) : source[i] = Surrogate THEN "UnicodeEncodeError"
    ELSE IF IsExpr(source) THEN "ok"
    ELSE "SyntaxError"

\* lines[-1] of [ln.strip() for ln in code_nl.split("\n") if ln.strip()];
\* <<>> when there is no such line.
LastLine(code_nl) ==
    LET ink == {i \in 1..Len(code_nl) : code_nl[i] \notin Whitespace}
    IN  IF ink = {} THEN <<>>
        ELSE strip(SubSeq(code_nl, LineStart(code_nl, Max(ink)),
                                   LineEnd(code_nl, Max(ink))))

\* "=" in last
HasLoneEquals(last) ==
    \E i \in 1..Len(last) :
        /\ last[i] = "="
        /\ i = 1 \/ last[i - 1] # "="
        /\ i = Len(last) \/ last[i + 1] # "="
HasEquals(last) == Contains(last, <<"=">>)

\* The except clause of line 64 catches SyntaxError and nothing else.
Caught == {"SyntaxError"}

\* The rewriter returns ret, or raises what compile raised.
_maybe_wrap_print(code) ==
    LET code_nl  == [i \in 1..Len(code) |->
                        IF code[i] = ";" THEN "\n" ELSE code[i]]
        last     == LastLine(code_nl)
        same     == [raised |-> FALSE, ret |-> code]
    IN  IF Contains(code, PrintTok) THEN same
        ELSE IF last = <<>> THEN same
        ELSE IF HasEquals(last) THEN same
        ELSE LET parsed == compile(last)
             IN  IF parsed \in Caught THEN same
                 ELSE IF parsed # "ok" THEN [raised |-> TRUE, ret |-> <<>>]
                 ELSE [raised |-> FALSE,
                       ret |-> rstrip(dedent(code)) \o <<"\n">> \o PrintTok
                                   \o last \o <<")">>]

----------------------------------------------------------------------------
(* The session registry. *)

None == "None"
Hints == {"a"}
UuidText == <<"u1", "u2", "u3">>
\* str(uuid4()): the n-th identifier drawn; uuid4 never repeats one.
UUID(n) == UuidText[n]
AllIds == Hints \cup {UUID(n) : n \in 1..MaxUuid}

\* dict.pop(k, None)
pop(d, k) == [i \in DOMAIN d \ {k} |-> d[i]]

\* d[k] = v
put(d, k, v) == [i \in DOMAIN d \cup {k} |-> IF i = k THEN v ELSE d[i]]

\* create: iid = instance_id or str(uuid4()); self._state[iid] = {}
create_rebuild(d, n, instance_id) ==
    LET drawn == instance_id \in {None, ""}
        iid   == IF drawn THEN UUID(n + 1) ELSE instance_id
    IN  [iid |-> iid, state |-> put(<<>>, iid, <<>>),
         issued |-> IF drawn THEN n + 1 ELSE n, raised |-> FALSE]
create(d, n, instance_id) ==
    LET drawn == instance_id \in {None, ""}
        iid   == IF drawn THEN UUID(n + 1) ELSE instance_id
    IN  [iid |-> iid, state |-> put(d, iid, <<>>),
         issued |-> IF drawn THEN n + 1 ELSE n, raised |-> FALSE]

\* release: self._state.pop(instance_id, None)
release_del(d, instance_id) ==
    IF instance_id \in DOMAIN d
    THEN [state |-> pop(d, instance_id), raised |-> FALSE]
    ELSE [state |-> d, raised |-> TRUE]
release(d, instance_id) == [state |-> pop(d, instance_id), raised |-> FALSE]

Create(instance_id) ==
    /\ instance_id \in {None, ""} => issued < MaxUuid
    /\ LET r == create(_state, issued, instance_id)
       IN  /\ _state' = r.state
           /\ issued' = r.issued
           /\ lastOp' = [op |-> "create", arg |-> instance_id, ret |-> r.iid,
                         raised |-> r.raised, pre |-> _state]
    /\ UNCHANGED <<fs, procs, calls, arg, res>>

Release(instance_id) ==
    /\ LET r == release(_state, instance_id)
       IN  /\ _state' = r.state
           /\ lastOp' = [op |-> "release", arg |-> instance_id, ret |-> None,
                         raised |-> r.raised, pre |-> _state]
    /\ UNCHANGED <<issued, fs, procs, calls, arg, res>>

----------------------------------------------------------------------------
(* The snippet runner and execute. *)

NoBeh == [rc |-> -1, out |-> <<>>, err |-> <<>>]
NotRead == [read |-> FALSE, text |-> <<>>]

Idle ==
    [pc |-> "idle", code |-> <<>>, src |-> <<>>, wasLive |-> FALSE,
     tmp_path |-> 0, ran |-> NotRead, beh |-> NoBeh, outcome |-> "none",
     out |-> <<>>, err |-> <<>>, raised |-> FALSE, text |-> <<>>,
     reward |-> "none"]

Returned == [Idle EXCEPT !.pc = "returned"]

Child(c) == [run |-> c, kind |-> "child", pipe |-> TRUE]
Desc(c, pipe) == [run |-> c, kind |-> "descendant", pipe |-> pipe]
Tree(c) == {p \in procs : p.run = c}
\* The processes of run c that hold its stdout/stderr pipes open.
PipeHolders(c) == {p \in Tree(c) : p.pipe}

\* tempfile.NamedTemporaryFile(delete=False): mkstemp opens the file with
\* O_EXCL, so the name it returns is one no existing file has.
AnyName(files) == Names
FreeNames(files) == Names \ DOMAIN files

\* os.unlink(tmp_path), FileNotFoundError passed over.
unlink(files, path) == [n \in DOMAIN files \ {path} |-> files[n]]

\* The snippets the execute calls of the model are given, and what the
\* rewriter makes of each.
Codes == {<<"1", "+", "1">>, <<" ", "x", "=", "1">>}
WrapOf == [code \in Codes |-> _maybe_wrap_print(code)]

\* execute and the registry: no line of execute (115-125) names self._state,
\* so the registry after the call is the registry before it.
execute_state_setdefault(d, instance_id) ==
    IF instance_id \in DOMAIN d THEN d ELSE put(d, instance_id, <<>>)
execute_state(d, instance_id) == d

\* execute up to the call of the runner: the code argument is rewritten;
\* self._state is not consulted, and what the rewriter raises is raised.
execute_begin_checked(d, instance_id, code) ==
    [raised |-> instance_id \notin DOMAIN d, src |-> WrapOf[code].ret]
execute_begin(d, instance_id, code) ==
    LET r == WrapOf[code]
    IN  [raised |-> r.raised, src |-> r.ret]

\* subprocess.run returned: return proc.stdout.strip(), proc.stderr.strip()
run_result(b) == [out |-> strip(b.out), err |-> strip(b.err)]

\* except subprocess.TimeoutExpired: return "", "Execution timed out"
run_timeout(partial) == [out |-> <<>>, err |-> TimedOutText]

\* subprocess.run on TimeoutExpired: process.kill(); process.wait()
kill_none(ps, c) == ps
kill(ps, c) == ps \ {Child(c)}

\* execute after the runner returned: reward and envelope.
execute_result_rc(rc, stdout, stderr) ==
    [text |-> Envelope(stdout, stderr),
     reward |-> IF rc # 0 THEN "-0.1" ELSE "0.0"]
execute_result(rc, stdout, stderr) ==
    [text |-> Envelope(stdout, stderr), reward |-> Reward(stderr)]

ExecuteBegin(c, instance_id, code) ==
    /\ calls[c].pc = "idle"
    /\ \A d \in 1..(c - 1) : calls[d].pc # "idle"
    /\ LET b == execute_begin(_state, instance_id, code)
       IN  IF b.raised
           THEN /\ calls' = [calls EXCEPT ![c] =
                      [Idle EXCEPT !.pc = "done", !.code = code,
                                   !.wasLive = instance_id \in DOMAIN _state,
                                   !.outcome = "begin_fault", !.raised = TRUE]]
                /\ fs' = fs
           ELSE \E name \in FreeNames(fs) :
                /\ calls' = [calls EXCEPT ![c] =
                      [Idle EXCEPT !.pc = "opened", !.code = code,
                                   !.src = b.src,
                                   !.wasLive = instance_id \in DOMAIN _state,
                                   !.tmp_path = name]]
                /\ fs' = put(fs, name, <<>>)
    /\ _state' = execute_state(_state, instance_id)
    /\ UNCHANGED <<issued, procs, lastOp, arg, res>>

\* tmp.write(dedent(code)) and the close of the file; a fault here is raised
\* before the try statement is entered.
WriteSnippet(c, ok) ==
    /\ calls[c].pc = "opened"
    /\ IF ok
       THEN /\ fs' = put(fs, calls[c].tmp_path, dedent(calls[c].src))
            /\ calls' = [calls EXCEPT ![c].pc = "try"]
       ELSE /\ fs' = fs
            /\ calls' = [calls EXCEPT ![c].pc = "done",
                                      ![c].outcome = "write_fault",
                                      ![c].raised = TRUE]
    /\ UNCHANGED <<_state, issued, procs, lastOp, arg, res>>

\* subprocess.run starts python3 on the file, or fails to (FileNotFoundError
\* or another OSError of Popen), which no except clause catches.
Launch(c, ok) ==
    /\ calls[c].pc = "try"
    /\ IF ok
       THEN /\ procs' = procs \cup {Child(c)}
            /\ calls' = [calls EXCEPT ![c].pc = "running"]
       ELSE /\ procs' = procs
            /\ calls' = [calls EXCEPT ![c].pc = "finally",
                                      ![c].outcome = "launch_fault"]
    /\ UNCHANGED <<_state, issued, fs, lastOp, arg, res>>

\* The interpreter reads its script.
ChildReads(c) ==
    /\ Child(c) \in procs
    /\ ~calls[c].ran.read
    /\ calls[c].tmp_path \in DOMAIN fs
    /\ calls' = [calls EXCEPT ![c].ran =
                    [read |-> TRUE, text |-> fs[calls[c].tmp_path]]]
    /\ UNCHANGED <<_state, issued, fs, procs, lastOp, arg, res>>

\* The snippet starts a process of its own, which inherits the pipes
\* unless it redirects them.
SnippetSpawns(c, pipe) ==
    /\ Child(c) \in procs
    /\ calls[c].ran.read
    /\ \A p \in Tree(c) : p.kind # "descendant"
    /\ procs' = procs \cup {Desc(c, pipe)}
    /\ UNCHANGED <<_state, issued, fs, calls, lastOp, arg, res>>

DescendantExits(c) ==
    /\ \E p \in Tree(c) : p.kind = "descendant" /\ procs' = procs \ {p}
    /\ UNCHANGED <<_state, issued, fs, calls, lastOp, arg, res>>

\* The child exits with status b.rc having written b.out and b.err.
ChildExits(c, b) ==
    /\ Child(c) \in procs
    /\ calls[c].ran.read
    /\ procs' = procs \ {Child(c)}
    /\ calls' = [calls EXCEPT ![c].beh = b]
    /\ UNCHANGED <<_state, issued, fs, lastOp, arg, res>>

\* communicate() returns once the child has exited and the pipes are closed.
Complete(c) ==
    /\ calls[c].pc = "running"
    /\ PipeHolders(c) = {}
    /\ LET r == run_result(calls[c].beh)
       IN  calls' = [calls EXCEPT ![c].pc = "finally",
                                  ![c].outcome = "returned",
                                  ![c].out = r.out, ![c].err = r.err]
    /\ UNCHANGED <<_state, issued, fs, procs, lastOp, arg, res>>

\* The timeout elapses before communicate() returns; partial is what the
\* pipes delivered so far, which is dropped with the child's exit status.
Timeout(c, partial) ==
    /\ calls[c].pc = "running"
    /\ PipeHolders(c) # {}
    /\ procs' = kill(procs, c)
    /\ LET r == run_timeout(partial)
       IN  calls' = [calls EXCEPT ![c].pc = "finally",
                                  ![c].outcome = "timeout",
                                  ![c].beh = NoBeh,
                                  ![c].out = r.out, ![c].err = r.err]
    /\ UNCHANGED <<_state, issued, fs, lastOp, arg, res>>

\* finally: the file is unlinked; then the pair goes back to execute, which
\* returns (text, reward, {}), or the pending exception goes to the caller.
Finally(c) ==
    /\ calls[c].pc = "finally"
    /\ fs' = unlink(fs, calls[c].tmp_path)
    /\ IF calls[c].outcome = "launch_fault"
       THEN calls' = [calls EXCEPT ![c].pc = "done", ![c].raised = TRUE]
       ELSE LET r == execute_result(calls[c].beh.rc, calls[c].out, calls[c].err)
            IN  calls' = [calls EXCEPT ![c].pc = "done",
                                       ![c].text = r.text,
                                       ![c].reward = r.reward]
    /\ UNCHANGED <<_state, issued, procs, lastOp, arg, res>>

\* The caller has the result; the call's frame is gone.
Return(c) ==
    /\ calls[c].pc = "done"
    /\ calls' = [calls EXCEPT ![c] = Returned]
    /\ UNCHANGED <<_state, issued, fs, procs, lastOp, arg, res>>

----------------------------------------------------------------------------
(* Inputs and specifications. *)

\* What a child may do: exit status, raw stdout, raw stderr.  Each exit
\* status comes with stderr empty, blank and with text.  What a snippet does
\* when run is not derived from its text: the child of any snippet may take
\* any of these behaviours, start a process of its own, or outlast the
\* timeout.
Behaviours ==
    {[rc |-> 0, out |-> <<"a", "\n">>, err |-> <<>>],
     [rc |-> 0, out |-> <<"a", "\n">>, err |-> <<"\n">>],
     [rc |-> 0, out |-> <<>>, err |-> <<"e", " ">>],
     [rc |-> 1, out |-> <<>>, err |-> <<>>],
     [rc |-> 1, out |-> <<"a", "\n">>, err |-> <<"\n">>],
     [rc |-> 1, out |-> <<"a", "\n">>, err |-> <<"e", " ">>]}

Partials == {<<>>, <<"a">>}

NoOp == [op |-> "none", arg |-> None, ret |-> None, raised |-> FALSE, pre |-> <<>>]
NoArg == [fn |-> "none"]
NoRes == [fn |-> "none"]

Init ==
    /\ _state = <<>>
    /\ issued = 0
    /\ fs = <<>>
    /\ procs = {}
    /\ calls = [c \in Calls |-> Idle]
    /\ lastOp = NoOp
    /\ arg = NoArg
    /\ res = NoRes

\* The identifiers a caller can pass: its own, and the ones create gave it.
CallerIds == Hints \cup {UUID(n) : n \in 1..issued}

\* No handler is running.
Quiet == \A c \in Calls : calls[c].pc \in {"idle", "returned"}

DoCreate == \E i \in CallerIds \cup {None, ""} : Create(i)
DoRelease == \E i \in AllIds : Release(i)
DoExecute == \E c \in Calls, i \in AllIds, code \in Codes : ExecuteBegin(c, i, code)
DoWrite == \E c \in Calls, ok \in BOOLEAN : WriteSnippet(c, ok)
DoLaunch == \E c \in Calls, ok \in BOOLEAN : Launch(c, ok)
DoChildReads == \E c \in Calls : ChildReads(c)
DoSpawn == \E c \in Calls, pipe \in BOOLEAN : SnippetSpawns(c, pipe)
DoDescendantExits == \E c \in Calls : DescendantExits(c)
DoChildExits == \E c \in Calls, b \in Behaviours : ChildExits(c, b)
DoComplete == \E c \in Calls : Complete(c)
DoTimeout == \E c \in Calls, partial \in Partials : Timeout(c, partial)
DoFinally == \E c \in Calls : Finally(c)
DoReturn == \E c \in Calls : Return(c)

RunnerStep ==
    \/ DoWrite
    \/ DoLaunch
    \/ DoChildReads
    \/ DoSpawn
    \/ DoDescendantExits
    \/ DoChildExits
    \/ DoComplete
    \/ DoTimeout
    \/ DoFinally
    \/ DoReturn

\* One event loop: a handler starts when no other is running.
Next ==
    \/ Quiet /\ DoCreate
    \/ Quiet /\ DoRelease
    \/ Quiet /\ DoExecute
    \/ RunnerStep

Spec == Init /\ [][Next]_vars

\* Concurrent workers: execute calls start at any time and their steps
\* interleave.  execute does not touch the registry, which stays as it is.
ThreadBehaviours ==
    {[rc |-> 0, out |-> <<"a", "\n">>, err |-> <<>>],
     [rc |-> 1, out |-> <<>>, err |-> <<"e", " ">>]}

ThreadChildExits == \E c \in Calls, b \in ThreadBehaviours : ChildExits(c, b)
ThreadTimeout == \E c \in Calls : Timeout(c, <<>>)

NextThreads ==
    \/ DoExecute
    \/ DoWrite
    \/ DoLaunch
    \/ DoChildReads
    \/ ThreadChildExits
    \/ DoComplete
    \/ ThreadTimeout
    \/ DoFinally
    \/ DoReturn

SpecThreads == Init /\ [][NextThreads]_vars

\* Concurrent workers with the registry: create and release are one
\* dictionary operation each (a store at line 112, a pop at line 131), which
\* the interpreter runs as a whole, and they take place between any two
\* steps of an execute call in progress.  The execute calls here follow one
\* another and run one snippet to a normal return; execute calls at the same
\* time, their faults and their timeouts are in Spec and SpecThreads.
SessionBehaviour == [rc |-> 0, out |-> <<"a", "\n">>, err |-> <<>>]

SessionExecute ==
    /\ Quiet
    /\ \E c \in Calls, i \in AllIds : ExecuteBegin(c, i, <<"1", "+", "1">>)
SessionWrite == \E c \in Calls : WriteSnippet(c, TRUE)
SessionLaunch == \E c \in Calls : Launch(c, TRUE)
SessionChildExits == \E c \in Calls : ChildExits(c, SessionBehaviour)

NextSessions ==
    \/ DoCreate
    \/ DoRelease
    \/ SessionExecute
    \/ SessionWrite
    \/ SessionLaunch
    \/ DoChildReads
    \/ SessionChildExits
    \/ DoComplete
    \/ DoFinally
    \/ DoReturn

SpecSessions == Init /\ [][NextSessions]_vars

\* The tail of execute on its own, lines 123-125 after the runner returned,
\* for output of any length: the input is what a child wrote.
EnvChars == {"a", "\"", "é", " "}
EnvLens == {0, 1, 2, LongLen, LongLen + 1, LongLen + 2}
EnvTexts == {Rep(ch, n) : ch \in EnvChars, n \in EnvLens}

InitEnvelope ==
    /\ _state = <<>>
    /\ issued = 0
    /\ fs = <<>>
    /\ procs = {}
    /\ calls = [c \in Calls |-> Idle]
    /\ lastOp = NoOp
    /\ arg \in [fn : {"execute_result"}, rc : {0}, out : EnvTexts, err : EnvTexts]
    /\ res = NoRes

ApplyEnvelope ==
    /\ arg.fn = "execute_result"
    /\ res = NoRes
    /\ LET r == run_result(arg)
           e == execute_result(arg.rc, r.out, r.err)
       IN  res' = [fn |-> "execute_result", text |-> e.text, reward |-> e.reward]
    /\ UNCHANGED <<_state, issued, fs, procs, calls, lastOp, arg>>

SpecEnvelope == InitEnvelope /\ [][ApplyEnvelope]_vars

\* The rewriter on its own, lines 38-68: the input is any snippet made of
\* up to MaxLines pieces, joined by a newline, a semicolon or a newline and
\* an indent, with or without a leading indent and a trailing blank.
MaxLines == 2

Items ==
    {<<>>,
     <<"x">>,
     <<"1", "+", "1">>,
     <<"1", "+">>,
     <<"x", "=", "1">>,
     <<"x", "=", "=", "1">>,
     <<"x", "(", "x", "=", "1", ")">>,
     <<"i", "f", " ", "x", ":">>,
     PrintTok \o <<"x", ")">>,
     <<Surrogate>>}
Seps == {<<"\n">>, <<";">>, <<"\n", " ">>}
Leads == {<<>>, <<" ">>}
Trails == {<<>>, <<"\n", " ", "\n">>, <<" ", ";">>}

RECURSIVE Bodies(_)
Bodies(n) ==
    IF n = 1 THEN Items
    ELSE {b \o s \o i : b \in Bodies(n - 1), s \in Seps, i \in Items}

RewriteCodes ==
    {l \o b \o t : l \in Leads, t \in Trails,
                   b \in UNION {Bodies(n) : n \in 1..MaxLines}}

InitRewrite ==
    /\ _state = <<>>
    /\ issued = 0
    /\ fs = <<>>
    /\ procs = {}
    /\ calls = [c \in Calls |-> Idle]
    /\ lastOp = NoOp
    /\ arg \in [fn : {"_maybe_wrap_print"}, code : RewriteCodes]
    /\ res = NoRes

\* _maybe_wrap_print(code)
Rewrite ==
    /\ arg.fn = "_maybe_wrap_print"
    /\ res = NoRes
    /\ LET r == _maybe_wrap_print(arg.code)
       IN  res' = [fn |-> "_maybe_wrap_print", n |-> 1, raised |-> r.raised,
                   ret |-> r.ret, first |-> r.ret]
    /\ UNCHANGED <<_state, issued, fs, procs, calls, lastOp, arg>>

\* _maybe_wrap_print(_maybe_wrap_print(code)), once the first call returned.
RewriteAgain ==
    /\ res.fn = "_maybe_wrap_print"
    /\ res.n = 1
    /\ ~res.raised
    /\ LET r == _maybe_wrap_print(res.ret)
       IN  res' = [fn |-> "_maybe_wrap_print", n |-> 2, raised |-> r.raised,
                   ret |-> r.ret, first |-> res.ret]
    /\ UNCHANGED <<_state, issued, fs, procs, calls, lastOp, arg>>

NextRewrite == Rewrite \/ RewriteAgain

SpecRewrite == InitRewrite /\ [][NextRewrite]_vars

----------------------------------------------------------------------------
(* The scoring utility (verl/utils/reward_score/gsm8k_original.py): a      *)
(* solution text is searched for an answer and the answer is compared with *)
(* the ground truth.                                                       *)

\* The character class [-0-9.,]
NumChars == {"-", ".", ",", "0", "1", "2", "3", "4", "5", "6", "7", "8", "9"}

\* re.I: a letter of the pattern matches in either case.
Lower(ch) ==
    CASE ch = "A" -> "a" [] ch = "N" -> "n" [] ch = "S" -> "s"
      [] ch = "W" -> "w" [] ch = "E" -> "e" [] ch = "R" -> "r"
      [] OTHER -> ch

\* The literal lit stands in s at index i.
LitAt(s, i, lit, fold) ==
    /\ i + Len(lit) - 1 <= Len(s)
    /\ \A k \in 1..Len(lit) :
          (IF fold THEN Lower(s[i + k - 1]) ELSE s[i + k - 1]) = lit[k]

\* The last index of the longest run of characters of set that starts at i
\* (i - 1 when s[i] is not in set): what a greedy x* or x+ takes.
RunTo(s, i, set) ==
    LET stop == {k \in i..Len(s) : s[k] \notin set}
    IN  IF stop = {} THEN Len(s) ELSE Min(stop) - 1

AnswerOpen == <<"<", "a", "n", "s", "w", "e", "r", ">">>
AnswerClose == <<"<", "/", "a", "n", "s", "w", "e", "r", ">">>

\* r"<answer>\s*([-0-9.,]+).*?</answer>" with re.I | re.S matched at i: the
\* span of group 1.  The group is a whole run, since neither the blank
\* before it nor the "<" after it is in the class.
AnswerGroup(s, i) ==
    LET a == RunTo(s, i + Len(AnswerOpen), Whitespace) + 1
    IN  [a |-> a, b |-> RunTo(s, a, NumChars)]
AnswerAt(s, i) ==
    /\ LitAt(s, i, AnswerOpen, TRUE)
    /\ LET g == AnswerGroup(s, i)
       IN  /\ g.b >= g.a
           /\ \E j \in (g.b + 1)..Len(s) : LitAt(s, j, AnswerClose, TRUE)

\* r"####\\s*([-0-9.,]+)": in a raw string \\ is the pattern of one
\* backslash, and s* after it is the letter s, any number of times.
StrictLiteral == <<"#", "#", "#", "#", "\\">>
StrictFill == {"s"}

StrictGroup(s, i) ==
    LET a == RunTo(s, i + Len(StrictLiteral), StrictFill) + 1
    IN  [a |-> a, b |-> RunTo(s, a, NumChars)]
StrictAt(s, i) ==
    /\ LitAt(s, i, StrictLiteral, FALSE)
    /\ LET g == StrictGroup(s, i) IN g.b >= g.a

\* .replace(",", "").replace("$", "")
Cleaned(t) == Pick(t, {i \in 1..Len(t) : t[i] \notin {",", "$"}})

NoAnswer == [none |-> TRUE, value |-> <<>>]
Answer(t) == [none |-> FALSE, value |-> Cleaned(t)]

\* re.findall(r"[-0-9.,]+", s), reversed: the last run that is not made
\* of "." alone.
Flexible(s) ==
    LET starts == {i \in 1..Len(s) :
                      /\ s[i] \in NumChars
                      /\ i = 1 \/ s[i - 1] \notin NumChars}
        good   == {i \in starts :
                      \E k \in i..RunTo(s, i, NumChars) : s[k] # "."}
    IN  IF good = {} THEN NoAnswer
        ELSE Answer(SubSeq(s, Max(good), RunTo(s, Max(good), NumChars)))

Methods == {"strict", "flexible"}

\* extract_solution(solution_str, method): re.search takes the leftmost match.
extract_solution(solution_str, method) ==
    LET tagged == {i \in 1..Len(solution_str) : AnswerAt(solution_str, i)}
        marked == {i \in 1..Len(solution_str) : StrictAt(solution_str, i)}
        tg     == AnswerGroup(solution_str, Min(tagged))
        sg     == StrictGroup(solution_str, Min(marked))
    IN  IF method \notin Methods THEN [raised |-> TRUE, answer |-> NoAnswer]
        ELSE [raised |-> FALSE,
              answer |->
                IF tagged # {} THEN Answer(SubSeq(solution_str, tg.a, tg.b))
                ELSE IF method = "strict"
                THEN (IF marked # {}
                      THEN Answer(SubSeq(solution_str, sg.a, sg.b))
                      ELSE NoAnswer)
                ELSE Flexible(solution_str)]

\* compute_score(solution_str, ground_truth, method, format_score, score)
compute_score(solution_str, ground_truth, method, format_score, score) ==
    LET e == extract_solution(solution_str, method)
    IN  IF e.raised THEN [raised |-> TRUE, answer |-> e.answer, value |-> 0]
        ELSE [raised |-> FALSE, answer |-> e.answer,
              value |-> IF e.answer.none THEN 0
                        ELSE IF e.answer.value = ground_truth THEN score
                        ELSE format_score]

\* Solution texts of up to MaxParts parts.
MaxParts == 3

ScoreParts ==
    {AnswerOpen, AnswerClose, <<"<", "A", "N", "S", "W", "E", "R", ">">>,
     <<"#", "#", "#", "#">>, <<"\\">>, <<"s">>, <<" ">>, <<"7", "2">>,
     <<"1", ",", "0", "0", "0">>, <<".">>, <<"x">>}

RECURSIVE ScoreTexts(_)
ScoreTexts(n) ==
    IF n = 0 THEN {<<>>}
    ELSE LET shorter == ScoreTexts(n - 1)
         IN  shorter \cup {t \o q : t \in shorter, q \in ScoreParts}

GroundTruths == {<<"7", "2">>, <<"1", "0", "0", "0">>}

InitScore ==
    /\ _state = <<>>
    /\ issued = 0
    /\ fs = <<>>
    /\ procs = {}
    /\ calls = [c \in Calls |-> Idle]
    /\ lastOp = NoOp
    /\ arg \in [fn : {"compute_score"}, solution_str : ScoreTexts(MaxParts),
                ground_truth : GroundTruths, method : Methods \cup {"lenient"},
                format_score : {0, 1}, score : {2}]
    /\ res = NoRes

Score ==
    /\ arg.fn = "compute_score"
    /\ res = NoRes
    /\ LET r == compute_score(arg.solution_str, arg.ground_truth, arg.method,
                              arg.format_score, arg.score)
       IN  res' = [fn |-> "compute_score", raised |-> r.raised,
                   answer |-> r.answer, value |-> r.value]
    /\ UNCHANGED <<_state, issued, fs, procs, calls, lastOp, arg>>

SpecScore == InitScore /\ [][Score]_vars

----------------------------------------------------------------------------
(* The claims. *)

\* The whole string: the opening tag, the JSON object and the closing tag.
EnvelopeNoCap(stdout, stderr) == OpenTag \o dumps(stdout, stderr) \o CloseTag

\* What the file of a run of each snippet is to hold: the snippet rewritten,
\* then dedented.
SourceOf == [code \in Codes |-> dedent(WrapOf[code].ret)]

Done(c) == calls[c].pc = "done"
HoldsFile(c) == calls[c].pc \in {"opened", "try", "running", "finally"}

\* C1: when a call of the runner has ended, on whatever exit path, the
\* temporary file it created no longer exists.
C1_TempFileGoneOnEveryExit ==
    \A c \in Calls : Done(c) => calls[c].tmp_path \notin DOMAIN fs

\* C2: a launch-level fault of the runner is not raised to the caller: it
\* comes back as non-empty stderr text and execute returns reward -0.1.
C2_LaunchFaultIsReturned ==
    \A c \in Calls :
        Done(c) /\ calls[c].outcome = "launch_fault" =>
            /\ ~calls[c].raised
            /\ calls[c].err # <<>>
            /\ calls[c].reward = "-0.1"

\* C3: a call whose timeout elapsed returns stdout "" and stderr exactly
\* "Execution timed out" with reward -0.1, and the spawned child is no
\* longer running when the call returns.
C3_TimeoutResult ==
    \A c \in Calls :
        calls[c].outcome = "timeout" =>
            /\ calls[c].out = <<>>
            /\ calls[c].err = TimedOutText
            /\ Child(c) \notin procs
            /\ ~calls[c].raised
            /\ Done(c) =>
                  /\ calls[c].reward = "-0.1"
                  /\ calls[c].text = Take(EnvelopeNoCap(<<>>, TimedOutText), 3000)

\* A call has returned after its timeout elapsed.
C3_Witness ==
    \E c \in Calls : Done(c) /\ calls[c].outcome = "timeout"

\* C4: when the timeout fired, no process descended from the spawned child
\* is running when the execute call returns.
C4_TreeTerminatedOnTimeout ==
    \A c \in Calls :
        Done(c) /\ calls[c].outcome = "timeout" => Tree(c) = {}

\* C5: the reward of a call that returns is -0.1 when the stderr text it
\* returns is non-empty and 0.0 otherwise; for a child that exited, that
\* text is the child's stderr trimmed, whatever its stdout and exit status.
C5_RewardFromStderrOnly ==
    \A c \in Calls :
        Done(c) /\ ~calls[c].raised =>
            /\ calls[c].reward = IF calls[c].err # <<>> THEN "-0.1" ELSE "0.0"
            /\ calls[c].outcome = "returned" =>
                  /\ calls[c].err = strip(calls[c].beh.err)
                  /\ calls[c].out = strip(calls[c].beh.out)

\* A non-zero exit whose stderr is blank gets 0.0.
C5_Witness ==
    \E c \in Calls :
        /\ Done(c) /\ calls[c].outcome = "returned"
        /\ calls[c].beh.rc = 1
        /\ calls[c].beh.err = <<"\n">>
        /\ calls[c].beh.out # <<>>
        /\ calls[c].reward = "0.0"

\* C6: the text execute returns is never longer than 3000 characters.
C6_EnvelopeAtMost3000 ==
    res.fn = "execute_result" => Len(res.text) <= 3000

\* A payload that is twice the cap after escaping.
C6_Witness ==
    /\ res.fn = "execute_result"
    /\ Len(Esc(strip(arg.out))) > 2 * 3000
    /\ Len(res.text) = 3000

\* C7: release does not raise and removes the record of its id and nothing
\* else; for an id that is not live it changes nothing.
C7_ReleaseUnknownIsNoOp ==
    lastOp.op = "release" =>
        /\ ~lastOp.raised
        /\ DOMAIN _state = DOMAIN lastOp.pre \ {lastOp.arg}
        /\ \A i \in DOMAIN _state : _state[i] = lastOp.pre[i]
        /\ lastOp.arg \notin DOMAIN lastOp.pre => _state = lastOp.pre

\* A release of an id that is not live while another session is.
C7_Witness ==
    /\ lastOp.op = "release"
    /\ lastOp.arg \notin DOMAIN lastOp.pre
    /\ DOMAIN lastOp.pre # {}

\* C8: every create returns an identifier that was not live when it was
\* called, registers an empty record for it and leaves the others as they
\* were.
C8_CreateReturnsFreshId ==
    lastOp.op = "create" =>
        /\ lastOp.ret \notin DOMAIN lastOp.pre
        /\ DOMAIN _state = DOMAIN lastOp.pre \cup {lastOp.ret}
        /\ _state[lastOp.ret] = <<>>
        /\ \A i \in DOMAIN lastOp.pre : _state[i] = lastOp.pre[i]

\* C9: execute on an id that is not live is not refused: the snippet is
\* run, and the call returns what its run determines, the same as for a
\* live id; it raises only where the runner itself does.
C9_ExecuteAcceptsAnyId ==
    \A c \in Calls :
        Done(c) =>
            /\ calls[c].outcome \in {"returned", "timeout", "launch_fault", "write_fault"}
            /\ calls[c].raised <=> calls[c].outcome \in {"launch_fault", "write_fault"}
            /\ calls[c].outcome = "returned" =>
                  /\ calls[c].ran = [read |-> TRUE,
                                     text |-> SourceOf[calls[c].code]]
                  /\ calls[c].text =
                        Take(EnvelopeNoCap(strip(calls[c].beh.out),
                                           strip(calls[c].beh.err)), 3000)

\* A call on an id that was not live has returned its envelope.
C9_Witness ==
    \E c \in Calls :
        /\ Done(c) /\ ~calls[c].wasLive
        /\ calls[c].outcome = "returned"
        /\ calls[c].reward = "0.0"

\* C10: two runs that hold a temporary file at the same time hold different
\* files; the file of a run in progress exists with that run's own source,
\* and the child of a run read the source of its own run.
C10_RunsNeverShareFile ==
    /\ \A c, d \in Calls :
          c # d /\ HoldsFile(c) /\ HoldsFile(d) =>
              calls[c].tmp_path # calls[d].tmp_path
    /\ \A c \in Calls :
          /\ HoldsFile(c) => calls[c].tmp_path \in DOMAIN fs
          /\ calls[c].pc \in {"try", "running", "finally"} =>
                fs[calls[c].tmp_path] = SourceOf[calls[c].code]
          /\ calls[c].ran.read =>
                calls[c].ran.text = SourceOf[calls[c].code]

\* Two runs of different code are in progress at once, one child has read.
C10_Witness ==
    \E c, d \in Calls :
        /\ c # d
        /\ calls[c].pc = "running" /\ calls[d].pc = "running"
        /\ calls[c].code # calls[d].code
        /\ calls[c].ran.read /\ calls[d].ran.read

\* C11: the text execute returns is the first 3000 characters of the
\* opening tag, the JSON object of the trimmed stdout and stderr and the
\* closing tag; when that string has at most 3000 characters it is returned
\* whole, closing tag included.
C11_EnvelopeIsCutSerialization ==
    res.fn = "execute_result" =>
        LET full == EnvelopeNoCap(strip(arg.out), strip(arg.err))
            n    == Len(res.text)
        IN  /\ res.text = SubSeq(full, 1, IF Len(full) < 3000 THEN Len(full) ELSE 3000)
            /\ Len(full) <= 3000 =>
                  /\ res.text = full
                  /\ SubSeq(res.text, 1, 13) = OpenTag
                  /\ SubSeq(res.text, n - 15, n) = <<"\"", "}">> \o CloseTag

\* The whole string has exactly 3000 characters and came back whole.
C11_Witness ==
    /\ res.fn = "execute_result"
    /\ Len(EnvelopeNoCap(strip(arg.out), strip(arg.err))) = 3000
    /\ Len(strip(arg.out)) > 0
    /\ res.text = EnvelopeNoCap(strip(arg.out), strip(arg.err))

\* What a call that ended is to give back, from its code and what its own
\* child did alone.
ResultOf(call) ==
    IF call.outcome = "returned"
    THEN [raised |-> FALSE,
          text   |-> Take(EnvelopeNoCap(strip(call.beh.out), strip(call.beh.err)), 3000),
          reward |-> IF strip(call.beh.err) = <<>> THEN "0.0" ELSE "-0.1"]
    ELSE IF call.outcome = "timeout"
    THEN [raised |-> FALSE,
          text   |-> Take(EnvelopeNoCap(<<>>, TimedOutText), 3000),
          reward |-> "-0.1"]
    ELSE [raised |-> TRUE, text |-> <<>>, reward |-> "none"]

\* C17: no step of an execute call changes the registry or the identifiers
\* drawn, whatever the id it was called with, and what the call gives back
\* follows from its code and its own run: the child read the rewritten code
\* and the result is the one of that child's output, or of the timeout.
C17_ExecuteStateless ==
    [][/\ calls' # calls => _state' = _state /\ issued' = issued
       /\ \A c \in Calls :
             calls[c].pc # "done" /\ calls'[c].pc = "done" =>
                /\ calls'[c].outcome \in
                      {"returned", "timeout", "launch_fault", "write_fault"}
                /\ calls'[c].ran.read =>
                      calls'[c].ran.text = SourceOf[calls'[c].code]
                /\ [raised |-> calls'[c].raised, text |-> calls'[c].text,
                    reward |-> calls'[c].reward] = ResultOf(calls'[c])]_vars

\* The second call returned its envelope for an id that is not live, after
\* a first call and with a create and a release before it.
C17_Witness ==
    /\ calls[1].pc = "returned"
    /\ Done(2) /\ calls[2].outcome = "returned" /\ ~calls[2].wasLive
    /\ lastOp.op = "release" /\ lastOp.arg \in DOMAIN lastOp.pre
    /\ _state # <<>>

\* C18: with create and release calls taking place between the steps of
\* execute calls, every step leaves the registry as it was or is a create
\* that adds the record of its own id or a release that removes the record
\* of its own id; the record of every other id stays.
C18_RegistryConsistent ==
    [][/\ calls' # calls => _state' = _state
       /\ _state' # _state =>
             /\ lastOp'.op \in {"create", "release"}
             /\ lastOp'.pre = _state
             /\ lastOp'.op = "create" =>
                   DOMAIN _state' = DOMAIN _state \cup {lastOp'.ret}
             /\ lastOp'.op = "release" =>
                   DOMAIN _state' = DOMAIN _state \ {lastOp'.arg}
             /\ \A i \in DOMAIN _state \cap DOMAIN _state' :
                   _state'[i] = _state[i]]_vars

\* A session was created while an execute call was in progress and another
\* session was live.
C18_Witness ==
    /\ \E c \in Calls : calls[c].pc \in {"opened", "try", "running", "finally"}
    /\ lastOp.op = "create"
    /\ lastOp.pre # <<>>
    /\ lastOp.ret \notin DOMAIN lastOp.pre
    /\ DOMAIN _state = DOMAIN lastOp.pre \cup {lastOp.ret}

----------------------------------------------------------------------------
(* The claims about the rewriter, stated on the snippet's text. *)

Rewritten == res.fn = "_maybe_wrap_print" /\ res.n = 1

\* The text print( stands somewhere in the snippet.
HasPrintCall(code) ==
    \E i \in 1..(Len(code) - 5) : \A k \in 1..6 : code[i + k - 1] = PrintTok[k]

\* The last logical line: the snippet is cut at every ";" and newline, and
\* the last piece that is not blank is taken without the blanks around it;
\* <<>> when every piece is blank.
IsBreak(ch) == ch \in {";", "\n"}
LogicalLast(code) ==
    LET n   == Len(code)
        ink == {i \in 1..n : code[i] \notin Whitespace /\ ~IsBreak(code[i])}
    IN  IF ink = {} THEN <<>>
        ELSE LET p == Max(ink)
                 a == Max({0} \cup {i \in 1..p : IsBreak(code[i])}) + 1
                 b == Min({n + 1} \cup {i \in p..n : IsBreak(code[i])}) - 1
             IN  strip(SubSeq(code, a, b))

HasChar(s, ch) == \E i \in 1..Len(s) : s[i] = ch

\* The snippet with "print(<last logical line>)" on a new line after it.
WithPrint(code) ==
    rstrip(dedent(code)) \o <<"\n", "p", "r", "i", "n", "t", "(">>
        \o LogicalLast(code) \o <<")">>

\* The last logical line stands in a physical line that belongs to an
\* indented block: an earlier line ends with ":" and is indented less, and
\* no line between the two is indented as little as that header.
EndsWithColon(code, st) ==
    LET t == rstrip(SubSeq(code, st, LineEnd(code, st)))
    IN  t # <<>> /\ t[Len(t)] = ":"
InBlock(code) ==
    LET n      == Len(code)
        ink    == {i \in 1..n : code[i] \notin Whitespace /\ ~IsBreak(code[i])}
        lines  == {LineStart(code, i) : i \in {j \in 1..n : code[j] \notin Whitespace}}
        st     == LineStart(code, Max(ink))
    IN  /\ ink # {}
        /\ \E h \in lines :
              /\ h < st
              /\ EndsWithColon(code, h)
              /\ IndentLen(code, h) < IndentLen(code, st)
              /\ \A m \in lines :
                    h < m /\ m < st => IndentLen(code, m) > IndentLen(code, h)

\* C12: the rewriter is total: on every input it returns and raises
\* nothing, and when the last logical line does not parse as an expression,
\* for whatever reason, it returns the input unchanged.
C12_RewriterTotal ==
    Rewritten =>
        /\ ~res.raised
        /\ (/\ ~HasPrintCall(arg.code)
            /\ LogicalLast(arg.code) # <<>>
            /\ compile(LogicalLast(arg.code)) # "ok") => res.ret = arg.code

\* C13: a snippet that holds the text print( anywhere is returned
\* unchanged.
C13_PrintCallUnchanged ==
    Rewritten /\ HasPrintCall(arg.code) =>
        ~res.raised /\ res.ret = arg.code

\* The print call is not at the start and the last logical line is an
\* expression.
C13_Witness ==
    /\ Rewritten
    /\ HasPrintCall(arg.code)
    /\ SubSeq(arg.code, 1, 6) # PrintTok
    /\ LogicalLast(arg.code) = <<"x">>
    /\ res.ret = arg.code

\* C14: a snippet whose last logical line holds "=" is returned unchanged,
\* also when the "=" belongs to a comparison or a keyword argument.
C14_EqualsUnchanged ==
    Rewritten /\ HasChar(LogicalLast(arg.code), "=") =>
        ~res.raised /\ res.ret = arg.code

\* The last logical line is the comparison x==1, an expression.
C14_Witness ==
    /\ Rewritten
    /\ ~HasPrintCall(arg.code)
    /\ LogicalLast(arg.code) = <<"x", "=", "=", "1">>
    /\ compile(LogicalLast(arg.code)) = "ok"
    /\ res.ret = arg.code

\* C15: with no print call, a last logical line that has no "=" and parses
\* as an expression, the rewriter returns the snippet dedented, without its
\* trailing blanks, and "print(<last logical line>)" on a new line; in every
\* other case it returns the input character for character.
C15_RewriteCharacterised ==
    Rewritten =>
        /\ ~res.raised
        /\ res.ret =
              IF /\ ~HasPrintCall(arg.code)
                 /\ LogicalLast(arg.code) # <<>>
                 /\ ~HasChar(LogicalLast(arg.code), "=")
                 /\ IsExpr(LogicalLast(arg.code))
              THEN WithPrint(arg.code)
              ELSE arg.code

\* C16: the rewriter appends a print call only for a final top-level
\* statement that is an expression; a snippet whose last logical line lies
\* inside an indented block is returned unchanged.
C16_PrintsFinalTopLevelStatement ==
    Rewritten /\ ~res.raised =>
        /\ res.ret # arg.code =>
              ~InBlock(arg.code) /\ IsExpr(LogicalLast(arg.code))
        /\ InBlock(arg.code) => res.ret = arg.code

\* C19: the rewriter applied to its own result returns that result.
C19_RewriteIdempotent ==
    res.fn = "_maybe_wrap_print" /\ res.n = 2 =>
        ~res.raised /\ res.ret = res.first

\* The first application appended a print call, the second one none.
C19_Witness ==
    /\ res.fn = "_maybe_wrap_print" /\ res.n = 2
    /\ res.first # arg.code
    /\ HasPrintCall(res.first)
    /\ res.ret = res.first

----------------------------------------------------------------------------
(* The claim about the scoring utility. *)

\* No answer tag opens in the text, in either case.
NoAnswerTag(s) == \A i \in 1..Len(s) : ~LitAt(s, i, AnswerOpen, TRUE)

\* The number after the first "####" that one follows, blanks between the
\* two allowed, without its commas.
MarkedNumber(s) ==
    LET at(i) == /\ LitAt(s, i, <<"#", "#", "#", "#">>, FALSE)
                 /\ LET a == RunTo(s, i + 4, Whitespace) + 1
                    IN  RunTo(s, a, NumChars) >= a
        marks == {i \in 1..Len(s) : at(i)}
        a     == RunTo(s, Min(marks) + 4, Whitespace) + 1
        run   == SubSeq(s, a, RunTo(s, a, NumChars))
    IN  IF marks = {} THEN [none |-> TRUE, value |-> <<>>]
        ELSE [none |-> FALSE,
              value |-> Pick(run, {k \in 1..Len(run) : run[k] # ","})]

\* C20: in strict mode, for a text with no answer tag, extract_solution
\* returns the number that follows the "####" marker, blanks between them
\* allowed and commas removed, and None only when there is no such marker
\* and number; compute_score then returns score when the number equals the
\* ground truth, format_score when it differs and 0 when there is none.
C20_StrictScoresMarkedNumber ==
    /\ res.fn = "compute_score"
    /\ arg.method = "strict"
    /\ NoAnswerTag(arg.solution_str)
    => LET m == MarkedNumber(arg.solution_str)
       IN  /\ ~res.raised
           /\ res.answer = m
           /\ res.value = IF m.none THEN 0
                          ELSE IF m.value = arg.ground_truth THEN arg.score
                          ELSE arg.format_score

====
